---- MODULE Spec2Model ----
(***************************************************************************)
(* A model of draft, the static blog generator (harrisonpage/draft).       *)
(*                                                                         *)
(* The model follows the newest revision of the program (the one with      *)
(* processPosts, FrontMatter, the Atom feed and the search export).        *)
(* Go strings that the program inspects character by character (links,     *)
(* tag names) are sequences of one-character strings; Str turns such a     *)
(* sequence into a TLA+ string so that URLs and paths are built by         *)
(* concatenation exactly as fmt.Sprintf and filepath.Join build them.      *)
(* Every character of the alphabets used here is a one-byte character, so  *)
(* Go's len (a byte count) is Len.                                         *)
(***************************************************************************)
EXTENDS Integers, Sequences, FiniteSets, TLC

VARIABLES
    pc,         \* position of the process: a stage of processPosts, or "call"/"return"
    config,     \* the Config record loaded by main
    files,      \* the directory entries of InputDir enumerated so far
    posts,      \* processPosts: var posts []Post
    tagIndex,   \* processPosts: tagIndex map[Tag][]Post
    postIndex,  \* processPosts: postIndex map[string]Post
    idx,        \* the render loop's index i
    disk,       \* files under the output directory: path -> content record
    writes,     \* how many times each path has been created
    faulted,    \* an I/O operation has failed in this run (at most one does)
    fatal,      \* the message of the log.Fatalf that ended the run, or ""
    arg,        \* argument of the pure function under check
    ret         \* its result

vars == <<pc, config, files, posts, tagIndex, postIndex, idx, disk, writes,
          faulted, fatal, arg, ret>>

(***************************************************************************)
(* Bounds of the model.                                                    *)
(***************************************************************************)
MaxFiles == 4
MaxLen == 3
MaxLines == 5

(***************************************************************************)
(* Strings.                                                                *)
(***************************************************************************)
RECURSIVE Str(_)
Str(s) == IF s = <<>> THEN "" ELSE Head(s) \o Str(Tail(s))

RECURSIVE Join(_, _)
Join(lines, sep) ==
    IF lines = <<>> THEN ""
    ELSE IF Len(lines) = 1 THEN lines[1]
    ELSE lines[1] \o sep \o Join(Tail(lines), sep)

Repeat(c, n) == [k \in 1..n |-> c]

\* unicode.IsSpace restricted to the one-byte characters
WhiteSpace == {" ", "\t", "\n", "\r", "\f"}

RECURSIVE TrimLeft(_)
TrimLeft(s) ==
    IF s # <<>> /\ Head(s) \in WhiteSpace THEN TrimLeft(Tail(s)) ELSE s

RECURSIVE TrimRight(_)
TrimRight(s) ==
    IF s # <<>> /\ s[Len(s)] \in WhiteSpace
    THEN TrimRight(SubSeq(s, 1, Len(s) - 1))
    ELSE s

TrimSpace(s) == TrimRight(TrimLeft(s))

Contains(s, sub) ==
    \E k \in 1..(Len(s) - Len(sub) + 1) : SubSeq(s, k, k + Len(sub) - 1) = sub

(***************************************************************************)
(* validateLinkName                                                        *)
(***************************************************************************)
NoError == "nil"

\* the character class [<>:"/\\|?*\n\r\t]
illegalChars == {"<", ">", ":", "\"", "/", "\\", "|", "?", "*", "\n", "\r", "\t"}

MaxLinkLen == 255

ErrReserved == "invalid name: '.' and '..' are not allowed"
ErrTraversal == "invalid name: path traversal patterns like '..' are not allowed"
ErrIllegal == "invalid name: contains illegal characters (e.g., < > : \" / \\ | ? *)"
ErrWhitespace == "invalid name: leading or trailing whitespace is not allowed"
ErrLength == "invalid name: must be between 1 and 255 characters long"

\* mutant: the whitespace check is lost
validateLinkName_noTrim(link) ==
    IF link = <<".">> \/ link = <<".", ".">> THEN ErrReserved
    ELSE IF Contains(link, <<".", ".">>) THEN ErrTraversal
    ELSE IF \E k \in 1..Len(link) : link[k] \in illegalChars THEN ErrIllegal
    ELSE IF Len(link) = 0 \/ Len(link) > MaxLinkLen THEN ErrLength
    ELSE NoError

validateLinkName(link) ==
    IF link = <<".">> \/ link = <<".", ".">> THEN ErrReserved
    ELSE IF Contains(link, <<".", ".">>) THEN ErrTraversal
    ELSE IF \E k \in 1..Len(link) : link[k] \in illegalChars THEN ErrIllegal
    ELSE IF TrimSpace(link) # link THEN ErrWhitespace
    ELSE IF Len(link) = 0 \/ Len(link) > MaxLinkLen THEN ErrLength
    ELSE NoError

(***************************************************************************)
(* validateHeaders (FrontMatter framing)                                   *)
(***************************************************************************)
Public == "public"
Private == "private"
ValidPostStatuses == {Public, Private}

MissingLine(field) == "missing a required header: " \o field
StatusLine(value) == "Invalid value for status: " \o value
IssuesLine(filePath) == "Post " \o filePath \o " has the following issues:"

\* mutant: validation returns at the first problem it finds
validateHeaders_firstOnly(frontMatter, filePath) ==
    LET first ==
            IF frontMatter.Title = "" THEN <<MissingLine("title")>>
            ELSE IF frontMatter.Link = <<>> THEN <<MissingLine("link")>>
            ELSE IF frontMatter.Published = "" THEN <<MissingLine("published")>>
            ELSE IF frontMatter.Template = "" THEN <<MissingLine("template")>>
            ELSE IF frontMatter.Description = "" THEN <<MissingLine("description")>>
            ELSE IF frontMatter.Status \notin ValidPostStatuses
            THEN <<StatusLine(frontMatter.Status)>>
            ELSE <<>>
    IN  IF first # <<>> THEN <<IssuesLine(filePath)>> \o first ELSE <<>>

\* the error text as its lines; <<>> is the nil error
validateHeaders(frontMatter, filePath) ==
    LET errorMessages ==
            (IF frontMatter.Title = "" THEN <<MissingLine("title")>> ELSE <<>>)
         \o (IF frontMatter.Link = <<>> THEN <<MissingLine("link")>> ELSE <<>>)
         \o (IF frontMatter.Published = "" THEN <<MissingLine("published")>> ELSE <<>>)
         \o (IF frontMatter.Template = "" THEN <<MissingLine("template")>> ELSE <<>>)
         \o (IF frontMatter.Description = "" THEN <<MissingLine("description")>> ELSE <<>>)
         \o (IF frontMatter.Status \notin ValidPostStatuses
             THEN <<StatusLine(frontMatter.Status)>> ELSE <<>>)
    IN  IF Len(errorMessages) > 0
        THEN <<IssuesLine(filePath)>> \o errorMessages
        ELSE <<>>

(***************************************************************************)
(* The link resolver.                                                      *)
(***************************************************************************)
buildPostLink(cfg, link) ==
    IF cfg.BasePath # ""
    THEN cfg.URL \o "/" \o cfg.BasePath \o "/" \o link \o "/"
    ELSE cfg.URL \o "/" \o link \o "/"

buildRootLink(cfg) ==
    IF cfg.BasePath # ""
    THEN cfg.URL \o "/" \o cfg.BasePath \o "/"
    ELSE cfg.URL \o "/"

buildTagLink(cfg, tag) ==
    IF cfg.BasePath # ""
    THEN cfg.URL \o "/" \o cfg.BasePath \o "/tags/" \o tag \o "/"
    ELSE cfg.URL \o "/tags/" \o tag \o "/"

buildTagsLink(cfg) ==
    IF cfg.BasePath # ""
    THEN cfg.URL \o "/" \o cfg.BasePath \o "/tags/"
    ELSE cfg.URL \o "/tags/"

buildRSSLink(cfg) ==
    IF cfg.BasePath # ""
    THEN cfg.URL \o "/" \o cfg.BasePath \o "/rss.xml"
    ELSE cfg.URL \o "/rss.xml"

buildAtomLink(cfg) ==
    IF cfg.BasePath # ""
    THEN cfg.URL \o "/" \o cfg.BasePath \o "/atom.xml"
    ELSE cfg.URL \o "/atom.xml"

buildCustomPageLink(cfg, page) ==
    IF cfg.BasePath # ""
    THEN cfg.URL \o "/" \o cfg.BasePath \o "/" \o Str(page.Link) \o "/"
    ELSE cfg.URL \o "/" \o Str(page.Link)

buildSitemapLink(cfg) ==
    IF cfg.BasePath # ""
    THEN cfg.URL \o "/" \o cfg.BasePath \o "/" \o "sitemap.xml"
    ELSE cfg.URL \o "/" \o "sitemap.xml"

buildRightsLink(cfg) ==
    IF cfg.BasePath # ""
    THEN cfg.URL \o "/" \o cfg.BasePath \o "/" \o "sitemap.xml"
    ELSE cfg.URL \o "/" \o "rights/"

(***************************************************************************)
(* Data: FrontMatter, Post, Tag.                                           *)
(***************************************************************************)
FrontMatterZero ==
    [Title |-> "", Link |-> <<>>, Description |-> "", Tags |-> <<>>,
     Published |-> "", Template |-> "", Author |-> "", Email |-> "",
     Status |-> "", Related |-> <<>>]

TimeZero == [unix |-> 0, offset |-> 0]

\* the zero value of Post, which a map lookup of a missing key yields
PostZero ==
    [FrontMatter |-> FrontMatterZero, URL |-> "", HTML |-> "", Text |-> "",
     PubTime |-> TimeZero, PubDate |-> "", Tags |-> <<>>, Related |-> <<>>,
     Previous |-> <<>>, Next |-> <<>>]

\* time.Parse(time.RFC3339, s) on the timestamps the input documents use:
\* seconds since the epoch and the zone offset in seconds
RFC3339Table ==
    [s \in {"2024-01-01T09:00:00-08:00", "2024-01-02T09:00:00+01:00",
            "2024-11-29T18:29:00-08:00"} |->
        CASE s = "2024-01-01T09:00:00-08:00" -> [unix |-> 1704128400, offset |-> -28800]
          [] s = "2024-01-02T09:00:00+01:00" -> [unix |-> 1704182400, offset |-> 3600]
          [] s = "2024-11-29T18:29:00-08:00" -> [unix |-> 1732933740, offset |-> -28800]]

timeParse(s) ==
    IF s \in DOMAIN RFC3339Table
    THEN [err |-> FALSE, t |-> RFC3339Table[s]]
    ELSE [err |-> TRUE, t |-> TimeZero]

\* pubTime.Format("02-Jan-2006") of the same timestamps (local to their offset)
FormatPubDate(s) ==
    CASE s = "2024-01-01T09:00:00-08:00" -> "01-Jan-2024"
      [] s = "2024-01-02T09:00:00+01:00" -> "02-Jan-2024"
      [] s = "2024-11-29T18:29:00-08:00" -> "29-Nov-2024"
      [] OTHER -> ""

\* the external plain-text renderer, opaque here
ToPlainText(content) == "text of " \o content

(***************************************************************************)
(* generatePost                                                            *)
(***************************************************************************)
\* mutant: the tag names are not trimmed
MakeTags_noTrim(cfg, tags) ==
    [k \in 1..Len(tags) |->
        [TagName |-> Str(tags[k]), URL |-> buildTagLink(cfg, Str(tags[k]))]]

\* the Tag structs of a document: tag name trimmed, tag URL
MakeTags(cfg, tags) ==
    [k \in 1..Len(tags) |->
        [TagName |-> Str(TrimSpace(tags[k])),
         URL |-> buildTagLink(cfg, Str(TrimSpace(tags[k])))]]

\* the Post that generatePost builds from a file that passed its checks
PostOf(cfg, file) ==
    [FrontMatter |-> file.fm,
     URL |-> buildPostLink(cfg, Str(file.fm.Link)),
     HTML |-> file.body,
     Text |-> ToPlainText(file.body),
     PubTime |-> timeParse(file.fm.Published).t,
     PubDate |-> FormatPubDate(file.fm.Published),
     Tags |-> MakeTags(cfg, file.fm.Tags),
     Related |-> <<>>,
     Previous |-> <<>>,
     Next |-> <<>>]

\* mutant: the headers, link and date of a private post are not checked
generatePost_privateUnchecked(cfg, file) ==
    LET filePath == cfg.InputDir \o "/" \o file.Name
        checked == file.fm.Status # "private"
    IN  IF file.yamlErr
        THEN [fatal |-> "Failed to process file '" \o filePath
                        \o "': failed to parse front matter",
              post |-> PostZero]
        ELSE IF checked /\ validateHeaders(file.fm, filePath) # <<>>
        THEN [fatal |-> "Validation error for file '" \o filePath \o "': "
                        \o Join(validateHeaders(file.fm, filePath), "\n"),
              post |-> PostZero]
        ELSE IF checked /\ validateLinkName(file.fm.Link) # NoError
        THEN [fatal |-> "Validation error for file '" \o filePath \o "': "
                        \o validateLinkName(file.fm.Link),
              post |-> PostZero]
        ELSE IF checked /\ timeParse(file.fm.Published).err
        THEN [fatal |-> "Error parsing date for " \o filePath, post |-> PostZero]
        ELSE [fatal |-> "", post |-> PostOf(cfg, file)]

\* result: fatal is the log.Fatalf message ("" when the post was built)
generatePost(cfg, file) ==
    LET filePath == cfg.InputDir \o "/" \o file.Name
        frontMatter == file.fm
        headerErr == validateHeaders(frontMatter, filePath)
        linkErr == validateLinkName(frontMatter.Link)
        pubTime == timeParse(frontMatter.Published)
    IN  IF file.yamlErr
        THEN [fatal |-> "Failed to process file '" \o filePath
                        \o "': failed to parse front matter",
              post |-> PostZero]
        ELSE IF headerErr # <<>>
        THEN [fatal |-> "Validation error for file '" \o filePath \o "': "
                        \o Join(headerErr, "\n"),
              post |-> PostZero]
        ELSE IF linkErr # NoError
        THEN [fatal |-> "Validation error for file '" \o filePath \o "': " \o linkErr,
              post |-> PostZero]
        ELSE IF pubTime.err
        THEN [fatal |-> "Error parsing date for " \o filePath, post |-> PostZero]
        ELSE [fatal |-> "", post |-> PostOf(cfg, file)]

(***************************************************************************)
(* processPosts: the pre-processing loop                                   *)
(***************************************************************************)
\* mutant: the post is put at the head of the tag's list
RECURSIVE AddTags_prepend(_, _, _)
AddTags_prepend(index, tags, post) ==
    IF tags = <<>> THEN index
    ELSE LET tag == Head(tags)
             old == IF tag \in DOMAIN index THEN index[tag] ELSE <<>>
             new == [t \in DOMAIN index \cup {tag} |->
                        IF t = tag THEN <<post>> \o old ELSE index[t]]
         IN  AddTags_prepend(new, Tail(tags), post)

\* tagIndex[tag] = append(tagIndex[tag], post) for each tag of the post, in order
RECURSIVE AddTags(_, _, _)
AddTags(index, tags, post) ==
    IF tags = <<>> THEN index
    ELSE LET tag == Head(tags)
             old == IF tag \in DOMAIN index THEN index[tag] ELSE <<>>
             new == [t \in DOMAIN index \cup {tag} |->
                        IF t = tag THEN Append(old, post) ELSE index[t]]
         IN  AddTags(new, Tail(tags), post)

\* mutant: a private post is not skipped
IsSkipped_never(post) == FALSE

\* mutant: the public posts are skipped, the private ones are kept
IsSkipped_public(post) == post.FrontMatter.Status = Public

\* "Skip private posts"
IsSkipped(post) == post.FrontMatter.Status = Private

\* mutant: the duplicate check and the registration come before the private skip
LoopBody_registerFirst(cfg, st, file) ==
    LET g == generatePost(cfg, file)
        post == g.post
        link == Str(post.FrontMatter.Link)
    IN  IF file.IsDir THEN st
        ELSE IF g.fatal # "" THEN [st EXCEPT !.fatal = g.fatal]
        ELSE IF link \in DOMAIN st.postIndex
        THEN [st EXCEPT !.fatal = "Duplicate link in post " \o link]
        ELSE IF post.FrontMatter.Status = Private
        THEN [st EXCEPT !.postIndex =
                        [l \in DOMAIN st.postIndex \cup {link} |->
                            IF l = link THEN post ELSE st.postIndex[l]]]
        ELSE [posts |-> Append(st.posts, post),
              tagIndex |-> AddTags(st.tagIndex, post.Tags, post),
              postIndex |-> [l \in DOMAIN st.postIndex \cup {link} |->
                                IF l = link THEN post ELSE st.postIndex[l]],
              fatal |-> ""]

\* one iteration of "for _, file := range files"
LoopBody(cfg, st, file) ==
    LET g == generatePost(cfg, file)
        post == g.post
        link == Str(post.FrontMatter.Link)
    IN  IF file.IsDir THEN st
        ELSE IF g.fatal # "" THEN [st EXCEPT !.fatal = g.fatal]
        ELSE IF IsSkipped(post) THEN st
        ELSE IF link \in DOMAIN st.postIndex
        THEN [st EXCEPT !.fatal = "Duplicate link in post " \o link]
        ELSE [posts |-> Append(st.posts, post),
              tagIndex |-> AddTags(st.tagIndex, post.Tags, post),
              postIndex |-> [l \in DOMAIN st.postIndex \cup {link} |->
                                IF l = link THEN post ELSE st.postIndex[l]],
              fatal |-> ""]

\* "Check for duplicate links across pages": the first page whose link is a
\* post's link is fatal
RECURSIVE CheckPages(_, _)
CheckPages(pages, index) ==
    IF pages = <<>> THEN ""
    ELSE IF Str(Head(pages).Link) \in DOMAIN index
    THEN "Duplicate link in page " \o Str(Head(pages).Link)
    ELSE CheckPages(Tail(pages), index)

\* mutant: the list is returned in the order it came in
reverse_none(ps) == ps

reverse(ps) == [k \in 1..Len(ps) |-> ps[Len(ps) + 1 - k]]

(***************************************************************************)
(* Inputs: the directory entries and the configurations of the model.      *)
(***************************************************************************)
SeqsUpTo(S, n) == UNION {[1..k -> S] : k \in 0..n}

ValidLinks == {<<"a">>, <<"b">>, <<"c">>}

\* the declared tags of the document with a given link: an upper-case name
\* and a repeated tag; the two tags of "meta, code"; a tag with a path
\* separator; no tag
TagsOf(l) ==
    CASE l = <<"a">> -> << <<"m", "e", "t", "a">>, <<" ", "C", "o", "d", "e">>,
                          <<"m", "e", "t", "a">> >>
      [] l = <<"b">> -> << <<"m", "e", "t", "a">>, <<" ", "c", "o", "d", "e">> >>
      [] l = <<"t", "a", "g", "s">> -> << <<"c", "i", "/", "c", "d">> >>
      [] OTHER -> <<>>

\* its declared related links: a link of another document, a link of no document
RelatedOf(l) ==
    CASE l = <<"a">> -> <<"b", "nowhere">>
      [] l = <<"c">> -> <<"a">>
      [] OTHER -> <<>>

PublishedOf(l) ==
    CASE l = <<"a">> -> "2024-01-01T09:00:00-08:00"
      [] l = <<"b">> -> "2024-01-02T09:00:00+01:00"
      [] OTHER -> "2024-11-29T18:29:00-08:00"

Doc(l, status) ==
    [IsDir |-> FALSE,
     Name |-> Str(l) \o "." \o status \o ".md",
     yamlErr |-> FALSE,
     fm |-> [Title |-> "Title of " \o Str(l) \o "." \o status,
             Link |-> l,
             Description |-> "About " \o Str(l),
             Tags |-> TagsOf(l),
             Published |-> PublishedOf(l),
             Template |-> "default.html",
             Author |-> "harrison",
             Email |-> "",
             Status |-> status,
             Related |-> RelatedOf(l)],
     body |-> "body of " \o Str(l) \o "." \o status]

DirEntry ==
    [IsDir |-> TRUE, Name |-> "drafts", yamlErr |-> FALSE,
     fm |-> FrontMatterZero, body |-> ""]

\* documents that generatePost refuses
BadDocs ==
    LET d == Doc(<<"a">>, Public)
        p == Doc(<<"b">>, Private)
    IN  << [d EXCEPT !.yamlErr = TRUE],
           [d EXCEPT !.fm.Title = ""],
           [d EXCEPT !.fm.Status = "draft"],
           [p EXCEPT !.fm.Published = "", !.fm.Status = ""],
           [d EXCEPT !.fm.Link = <<".", ".">>],
           [p EXCEPT !.fm.Link = <<"b", " ">>],
           [p EXCEPT !.fm.Published = "yesterday"] >>

FileNames ==
    <<"01.md", "02.md", "03.md", "04.md", "05", "06.md", "07.md", "08.md",
      "09.md", "10.md", "11.md", "12.md", "13.md", "14.md", "15.md">>

\* os.ReadDir returns the entries of the input directory sorted by file name.
\* Listing holds the entries a directory of the model may contain, in the
\* order of their names: the documents generatePost accepts (public ones, and
\* private ones that share their links with public ones, a second public
\* document with the link c, a public document with the link tags), a
\* subdirectory, and the refused documents.  Neither the links nor the dates follow the names.
Listing ==
    LET entries == << Doc(<<"b">>, Public), Doc(<<"a">>, Private), BadDocs[1],
                      Doc(<<"c">>, Public), DirEntry, BadDocs[2],
                      Doc(<<"a">>, Public), BadDocs[3], Doc(<<"b">>, Private),
                      [Doc(<<"c">>, Public) EXCEPT !.fm.Title = "Another c"],
                      Doc(<<"t", "a", "g", "s">>, Public),
                      BadDocs[4], BadDocs[5], BadDocs[6], BadDocs[7] >>
    IN  [k \in DOMAIN entries |-> [entries[k] EXCEPT !.Name = FileNames[k]]]

\* mutant: any entry of the directory may come next, read or not
NextEntries_any(read) == {Listing[k] : k \in DOMAIN Listing}

\* the entries that may follow the ones read so far
NextEntries(read) ==
    {Listing[k] : k \in {n \in DOMAIN Listing :
        \A m \in DOMAIN Listing : (\E i \in DOMAIN read : read[i] = Listing[m]) => m < n}}

Page(l) == [Template |-> "page.html", Title |-> "Page " \o Str(l), Link |-> l]

\* the declared static pages: none, one with the link of a document, two with
\* the same link, two different ones
PageLists ==
    { <<>>, <<Page(<<"a">>)>>,
      <<Page(<<"about">>), Page(<<"about">>)>>,
      <<Page(<<"about">>), Page(<<"c">>)>> }

Configs ==
    { [InputDir |-> "posts", OutputDir |-> "output", TemplatesDir |-> "templates",
       URL |-> "https://example.com", BasePath |-> b, BlogName |-> "Blog",
       Email |-> "me@example.com", Pages |-> ps,
       Search |-> [Enabled |-> e, Path |-> "corpus.json", Dir |-> "search"]]
      : b \in {"", "blog"}, ps \in PageLists,
        e \in BOOLEAN }

ConfigZero ==
    [InputDir |-> "", OutputDir |-> "", TemplatesDir |-> "", URL |-> "",
     BasePath |-> "", BlogName |-> "", Email |-> "", Pages |-> <<>>,
     Search |-> [Enabled |-> FALSE, Path |-> "", Dir |-> ""]]

(***************************************************************************)
(* processPosts as a state machine.                                        *)
(***************************************************************************)
Init ==
    /\ pc = "preprocess"
    /\ config \in Configs
    /\ files = <<>>
    /\ posts = <<>>
    /\ tagIndex = <<>>
    /\ postIndex = <<>>
    /\ idx = 0
    /\ disk = <<>>
    /\ writes = <<>>
    /\ faulted = FALSE
    /\ fatal = ""
    /\ arg = <<>>
    /\ ret = <<>>

\* one iteration of the pre-processing loop, on the next directory entry
PreProcess ==
    /\ pc = "preprocess"
    /\ Len(files) < MaxFiles
    /\ \E file \in NextEntries(files) :
        LET st == LoopBody(config,
                           [posts |-> posts, tagIndex |-> tagIndex,
                            postIndex |-> postIndex, fatal |-> ""],
                           file)
        IN  /\ files' = Append(files, file)
            /\ posts' = st.posts
            /\ tagIndex' = st.tagIndex
            /\ postIndex' = st.postIndex
            /\ fatal' = st.fatal
            /\ pc' = IF st.fatal # "" THEN "fatal" ELSE "preprocess"
    /\ UNCHANGED <<config, idx, disk, writes, faulted, arg, ret>>

\* mutant: the publishers start without the render loop
StartRender_skipRender ==
    /\ pc = "preprocess"
    /\ LET msg == CheckPages(config.Pages, postIndex)
       IN  IF msg # ""
           THEN /\ fatal' = msg
                /\ pc' = "fatal"
                /\ UNCHANGED <<posts, idx>>
           ELSE /\ posts' = reverse(posts)
                /\ idx' = 1
                /\ pc' = "index"
                /\ UNCHANGED fatal
    /\ UNCHANGED <<config, files, tagIndex, postIndex, disk, writes, faulted, arg, ret>>

\* the directory is exhausted: the page check, then "Display new to old"
StartRender ==
    /\ pc = "preprocess"
    /\ LET msg == CheckPages(config.Pages, postIndex)
       IN  IF msg # ""
           THEN /\ fatal' = msg
                /\ pc' = "fatal"
                /\ UNCHANGED <<posts, idx>>
           ELSE /\ posts' = reverse(posts)
                /\ idx' = 1
                /\ pc' = IF posts = <<>> THEN "index" ELSE "render"
                /\ UNCHANGED fatal
    /\ UNCHANGED <<config, files, tagIndex, postIndex, disk, writes, faulted, arg, ret>>

(***************************************************************************)
(* The output directory.                                                   *)
(***************************************************************************)
\* filepath.Join on path elements that are already clean
JoinPath(elems) == Join(elems, "/")

\* os.Create followed by a completed write
WriteFile(d, path, content) ==
    [p \in DOMAIN d \cup {path} |-> IF p = path THEN content ELSE d[p]]

\* the number of times each path was created
Created(w, path) ==
    [p \in DOMAIN w \cup {path} |->
        IF p = path THEN (IF p \in DOMAIN w THEN w[p] + 1 ELSE 1) ELSE w[p]]

Partial == [kind |-> "partial"]

Lookup(index, key) == IF key \in DOMAIN index THEN index[key] ELSE PostZero

(***************************************************************************)
(* processPosts: the render loop                                           *)
(***************************************************************************)
\* mutant: Previous and Next are exchanged
RenderedPost_swapped(ps, index, i) ==
    [ps[i] EXCEPT
        !.Previous = IF i > 1 THEN <<ps[i - 1]>> ELSE <<>>,
        !.Next = IF i # Len(ps) THEN <<ps[i + 1]>> ELSE <<>>,
        !.Related = [k \in 1..Len(ps[i].FrontMatter.Related) |->
                        Lookup(index, ps[i].FrontMatter.Related[k])]]

\* mutant: a related link that names no post is left out
RenderedPost_omitMissing(ps, index, i) ==
    LET present == SelectSeq(ps[i].FrontMatter.Related, LAMBDA l : l \in DOMAIN index)
    IN  [ps[i] EXCEPT
            !.Previous = IF i # Len(ps) THEN <<ps[i + 1]>> ELSE <<>>,
            !.Next = IF i > 1 THEN <<ps[i - 1]>> ELSE <<>>,
            !.Related = [k \in 1..Len(present) |-> index[present[k]]]]

\* the loop's copy of posts[i] after "Determine previous/next posts" and the
\* related lookup (posts is indexed from 1 here)
RenderedPost(ps, index, i) ==
    [ps[i] EXCEPT
        !.Previous = IF i # Len(ps) THEN <<ps[i + 1]>> ELSE <<>>,
        !.Next = IF i > 1 THEN <<ps[i - 1]>> ELSE <<>>,
        !.Related = [k \in 1..Len(ps[i].FrontMatter.Related) |->
                        Lookup(index, ps[i].FrontMatter.Related[k])]]

\* the template variables of a post's page
PostData(cfg, ps, index, i) ==
    LET post == RenderedPost(ps, index, i)
    IN  [kind |-> "post",
         Post |-> post,
         Tags |-> post.Tags,
         Unfurl |-> [Title |-> post.FrontMatter.Title, URL |-> post.URL],
         Canonical |-> post.URL]

PostPath(cfg, post) ==
    JoinPath(<<cfg.OutputDir, Str(post.FrontMatter.Link), "index.html">>)

\* an I/O failure before the file exists, or while it is written
IOFaults == {"create", "execute"}

\* mutant: the loop stores the back-filled record in the posts slice
RenderPost_writeBack ==
    /\ pc = "render"
    /\ \E io \in {"ok"} \cup IOFaults :
        LET post == posts[idx]
            path == PostPath(config, post)
        IN  /\ io # "ok" => ~faulted
            /\ faulted' = (faulted \/ io # "ok")
            /\ disk' = CASE io = "ok" ->
                                WriteFile(disk, path, PostData(config, posts, postIndex, idx))
                         [] io = "execute" -> WriteFile(disk, path, Partial)
                         [] OTHER -> disk
            /\ writes' = IF io \in {"ok", "execute"} THEN Created(writes, path) ELSE writes
            /\ fatal' = CASE io = "create" -> "Failed to create output file '" \o path \o "'"
                          [] io = "execute" ->
                                "Failed to execute template for file '" \o path \o "'"
                          [] OTHER -> fatal
            /\ idx' = IF io = "ok" THEN idx + 1 ELSE idx
            /\ pc' = IF io # "ok" THEN "fatal"
                     ELSE IF idx = Len(posts) THEN "index" ELSE "render"
    /\ posts' = [posts EXCEPT ![idx] = RenderedPost(posts, postIndex, idx)]
    /\ UNCHANGED <<config, files, tagIndex, postIndex, arg, ret>>

\* one iteration of "for i, post := range posts"
RenderPost ==
    /\ pc = "render"
    /\ \E io \in {"ok"} \cup IOFaults :
        LET post == posts[idx]
            path == PostPath(config, post)
        IN  /\ io # "ok" => ~faulted
            /\ faulted' = (faulted \/ io # "ok")
            /\ disk' = CASE io = "ok" ->
                                WriteFile(disk, path, PostData(config, posts, postIndex, idx))
                         [] io = "execute" -> WriteFile(disk, path, Partial)
                         [] OTHER -> disk
            /\ writes' = IF io \in {"ok", "execute"} THEN Created(writes, path) ELSE writes
            /\ fatal' = CASE io = "create" -> "Failed to create output file '" \o path \o "'"
                          [] io = "execute" ->
                                "Failed to execute template for file '" \o path \o "'"
                          [] OTHER -> fatal
            /\ idx' = IF io = "ok" THEN idx + 1 ELSE idx
            /\ pc' = IF io # "ok" THEN "fatal"
                     ELSE IF idx = Len(posts) THEN "index" ELSE "render"
    /\ UNCHANGED <<config, files, posts, tagIndex, postIndex, arg, ret>>

(***************************************************************************)
(* The publishers.                                                         *)
(***************************************************************************)
\* t.Format(layout) for the layouts time.RFC3339 and time.RFC1123Z, on the
\* instants of the model: the wall clock at the offset of t, then the offset
Format(t, layout) ==
    CASE t = [unix |-> 1704128400, offset |-> -28800] ->
            IF layout = "RFC3339" THEN "2024-01-01T09:00:00-08:00"
            ELSE "Mon, 01 Jan 2024 09:00:00 -0800"
      [] t = [unix |-> 1704182400, offset |-> 3600] ->
            IF layout = "RFC3339" THEN "2024-01-02T09:00:00+01:00"
            ELSE "Tue, 02 Jan 2024 09:00:00 +0100"
      [] t = [unix |-> 1732933740, offset |-> -28800] ->
            IF layout = "RFC3339" THEN "2024-11-29T18:29:00-08:00"
            ELSE "Fri, 29 Nov 2024 18:29:00 -0800"
      [] OTHER ->
            IF layout = "RFC3339" THEN "0001-01-01T00:00:00Z"
            ELSE "Mon, 01 Jan 0001 00:00:00 +0000"

IndexData(cfg, ps) ==
    [kind |-> "index", Posts |-> ps, Canonical |-> buildRootLink(cfg)]

TagsData(cfg, index) ==
    [kind |-> "tags", Tags |-> index, Canonical |-> buildTagsLink(cfg)]

TagData(cfg, index, tag) ==
    [kind |-> "tag", Key |-> tag.TagName, Value |-> index[tag],
     Canonical |-> buildTagLink(cfg, tag.TagName)]

TagPath(cfg, tag) == JoinPath(<<cfg.OutputDir, "tags", tag.TagName, "index.html">>)

\* mutant: every item carries the date of the last post of the list
RSSItems_lastPubDate(ps) ==
    [k \in 1..Len(ps) |->
        [Title |-> ps[k].FrontMatter.Title,
         Link |-> ps[k].URL,
         Guid |-> ps[k].URL,
         Description |-> ps[k].FrontMatter.Description,
         Author |-> ps[k].FrontMatter.Author,
         PubDate |-> Format(ps[Len(ps)].PubTime, "RFC1123Z")]]

RSSItems(ps) ==
    [k \in 1..Len(ps) |->
        [Title |-> ps[k].FrontMatter.Title,
         Link |-> ps[k].URL,
         Guid |-> ps[k].URL,
         Description |-> ps[k].FrontMatter.Description,
         Author |-> ps[k].FrontMatter.Author,
         PubDate |-> Format(ps[k].PubTime, "RFC1123Z")]]

AtomEntries(ps) ==
    [k \in 1..Len(ps) |->
        [Title |-> ps[k].FrontMatter.Title,
         Link |-> <<[Href |-> ps[k].URL]>>,
         Id |-> ps[k].URL,
         Published |-> Format(ps[k].PubTime, "RFC3339"),
         Updated |-> Format(ps[k].PubTime, "RFC3339"),
         Summary |-> ps[k].FrontMatter.Description,
         Author |-> [Name |-> ps[k].FrontMatter.Author,
                     Email |-> ps[k].FrontMatter.Email]]]

\* mutant: the post entries are built with the static-page link builder
SitemapURLs_pageLink(cfg, ps) ==
    <<[Loc |-> buildRootLink(cfg), LastMod |-> "now", ChangeFreq |-> "daily",
       Priority |-> "1.0"],
      [Loc |-> buildTagsLink(cfg), LastMod |-> "now", ChangeFreq |-> "weekly",
       Priority |-> "0.8"],
      [Loc |-> buildRSSLink(cfg), LastMod |-> "now", ChangeFreq |-> "",
       Priority |-> "0.7"]>>
    \o [k \in 1..Len(cfg.Pages) |->
        [Loc |-> buildCustomPageLink(cfg, cfg.Pages[k]), LastMod |-> "now",
         ChangeFreq |-> "monthly", Priority |-> "0.5"]]
    \o [k \in 1..Len(ps) |->
        [Loc |-> buildCustomPageLink(cfg, ps[k].FrontMatter),
         LastMod |-> Format(ps[k].PubTime, "RFC3339"),
         ChangeFreq |-> "weekly", Priority |-> "0.9"]]

\* mutant: the post entries carry the date of the run, as the others do
SitemapURLs_lastModNow(cfg, ps) ==
    <<[Loc |-> buildRootLink(cfg), LastMod |-> "now", ChangeFreq |-> "daily",
       Priority |-> "1.0"],
      [Loc |-> buildTagsLink(cfg), LastMod |-> "now", ChangeFreq |-> "weekly",
       Priority |-> "0.8"],
      [Loc |-> buildRSSLink(cfg), LastMod |-> "now", ChangeFreq |-> "",
       Priority |-> "0.7"]>>
    \o [k \in 1..Len(cfg.Pages) |->
        [Loc |-> buildCustomPageLink(cfg, cfg.Pages[k]), LastMod |-> "now",
         ChangeFreq |-> "monthly", Priority |-> "0.5"]]
    \o [k \in 1..Len(ps) |->
        [Loc |-> buildPostLink(cfg, Str(ps[k].FrontMatter.Link)),
         LastMod |-> "now",
         ChangeFreq |-> "weekly", Priority |-> "0.9"]]

\* generateSitemap: var urls []URL ("now" stands for time.Now's date)
SitemapURLs(cfg, ps) ==
    <<[Loc |-> buildRootLink(cfg), LastMod |-> "now", ChangeFreq |-> "daily",
       Priority |-> "1.0"],
      [Loc |-> buildTagsLink(cfg), LastMod |-> "now", ChangeFreq |-> "weekly",
       Priority |-> "0.8"],
      [Loc |-> buildRSSLink(cfg), LastMod |-> "now", ChangeFreq |-> "",
       Priority |-> "0.7"]>>
    \o [k \in 1..Len(cfg.Pages) |->
        [Loc |-> buildCustomPageLink(cfg, cfg.Pages[k]), LastMod |-> "now",
         ChangeFreq |-> "monthly", Priority |-> "0.5"]]
    \o [k \in 1..Len(ps) |->
        [Loc |-> buildPostLink(cfg, Str(ps[k].FrontMatter.Link)),
         LastMod |-> Format(ps[k].PubTime, "RFC3339"),
         ChangeFreq |-> "weekly", Priority |-> "0.9"]]

convertTagsToStrings(tags) == [k \in 1..Len(tags) |-> tags[k].TagName]

\* generateSluggoExport: payload.Documents
SluggoDocuments(ps) ==
    [k \in 1..Len(ps) |->
        [ID |-> ps[k].URL,
         Title |-> ps[k].FrontMatter.Title,
         Description |-> ps[k].FrontMatter.Description,
         Text |-> ps[k].Text,
         Attributes |-> [author |-> <<ps[k].FrontMatter.Author>>,
                         tags |-> convertTagsToStrings(ps[k].Tags)]]]

PageData(cfg, page) ==
    [kind |-> "page", Title |-> page.Title, Canonical |-> buildCustomPageLink(cfg, page)]

PagePath(cfg, page) == JoinPath(<<cfg.OutputDir, Str(page.Link), "index.html">>)

RECURSIVE WritePages(_, _, _)
WritePages(d, cfg, pages) ==
    IF pages = <<>> THEN d
    ELSE WritePages(WriteFile(d, PagePath(cfg, Head(pages)), PageData(cfg, Head(pages))),
                    cfg, Tail(pages))

RECURSIVE CreatedAll(_, _)
CreatedAll(w, paths) ==
    IF paths = <<>> THEN w ELSE CreatedAll(Created(w, Head(paths)), Tail(paths))

\* a set as a sequence, in some order
RECURSIVE SeqOf(_)
SeqOf(S) == IF S = {} THEN <<>> ELSE LET x == CHOOSE y \in S : TRUE
                                      IN  <<x>> \o SeqOf(S \ {x})

\* a writer whose every failure is a log.Fatalf: template.ParseFiles, os.Create,
\* tmpl.Execute, in this order
FatalWriter(from, to, path, content, what) ==
    /\ pc = from
    /\ \E io \in {"ok"} \cup IOFaults :
        /\ io # "ok" => ~faulted
        /\ faulted' = (faulted \/ io # "ok")
        /\ disk' = CASE io = "ok" -> WriteFile(disk, path, content)
                     [] io = "execute" -> WriteFile(disk, path, Partial)
                     [] OTHER -> disk
        /\ writes' = IF io \in {"ok", "execute"} THEN Created(writes, path) ELSE writes
        /\ fatal' = IF io = "ok" THEN fatal ELSE "Failed to " \o io \o " " \o what
        /\ pc' = IF io = "ok" THEN to ELSE "fatal"
    /\ UNCHANGED <<config, files, posts, tagIndex, postIndex, idx, arg, ret>>

\* a writer that reports a failure of os.Create or of the encoder to its caller
\* (or prints it) and returns: processPosts goes on with the next stage
ReturningWriter(from, to, path, content) ==
    /\ pc = from
    /\ \E io \in {"ok", "create", "encode"} :
        /\ io # "ok" => ~faulted
        /\ faulted' = (faulted \/ io # "ok")
        /\ disk' = CASE io = "ok" -> WriteFile(disk, path, content)
                     [] io = "encode" -> WriteFile(disk, path, Partial)
                     [] OTHER -> disk
        /\ writes' = IF io \in {"ok", "encode"} THEN Created(writes, path) ELSE writes
        /\ pc' = to
    /\ UNCHANGED <<config, files, posts, tagIndex, postIndex, idx, fatal, arg, ret>>

GenerateIndexHTML ==
    FatalWriter("index", "tags", JoinPath(<<config.OutputDir, "index.html">>),
                IndexData(config, posts), "index.html")

\* the tags index, then one page per tag in the map's iteration order; a failure
\* leaves the pages of the tags iterated before it
GenerateTagsHTML ==
    /\ pc = "tags"
    /\ \E io \in {"ok", "tag"} \cup IOFaults, done \in SUBSET DOMAIN tagIndex :
        LET indexPath == JoinPath(<<config.OutputDir, "tags", "index.html">>)
            tagSeq == SeqOf(done)
            withIndex == WriteFile(disk, indexPath, TagsData(config, tagIndex))
            RECURSIVE WriteTags(_, _)
            WriteTags(d, ts) ==
                IF ts = <<>> THEN d
                ELSE WriteTags(WriteFile(d, TagPath(config, Head(ts)),
                                         TagData(config, tagIndex, Head(ts))),
                               Tail(ts))
            tagPaths == [k \in 1..Len(tagSeq) |-> TagPath(config, tagSeq[k])]
        IN  /\ io # "ok" => ~faulted
            /\ io = "ok" => done = DOMAIN tagIndex
            /\ io = "tag" => (done # DOMAIN tagIndex \/ tagIndex = <<>>)
            /\ io \in IOFaults => done = {}
            /\ faulted' = (faulted \/ io # "ok")
            /\ disk' = CASE io \in {"ok", "tag"} -> WriteTags(withIndex, tagSeq)
                         [] io = "execute" -> WriteFile(disk, indexPath, Partial)
                         [] OTHER -> disk
            /\ writes' = CASE io \in {"ok", "tag"} ->
                                CreatedAll(Created(writes, indexPath), tagPaths)
                           [] io = "execute" -> Created(writes, indexPath)
                           [] OTHER -> writes
            /\ fatal' = CASE io = "ok" -> fatal
                          [] io = "tag" -> "Failed to generate a tag page"
                          [] OTHER -> "Failed to " \o io \o " tags index"
            /\ pc' = IF io = "ok" THEN "rss" ELSE "fatal"
    /\ UNCHANGED <<config, files, posts, tagIndex, postIndex, idx, arg, ret>>

GenerateRSSFeed ==
    ReturningWriter("rss", "atom", config.OutputDir \o "/rss.xml",
                    [kind |-> "rss", Link |-> buildRootLink(config),
                     Items |-> RSSItems(posts)])

GenerateAtomFeed ==
    ReturningWriter("atom", "pages", config.OutputDir \o "/atom.xml",
                    [kind |-> "atom", Id |-> buildRootLink(config),
                     Entries |-> AtomEntries(posts)])

\* the static pages in declared order; a failure at page n + 1 leaves the first n
GenerateCustomPages ==
    /\ pc = "pages"
    /\ \E n \in 0..Len(config.Pages), io \in {"ok"} \cup IOFaults :
        LET written == SubSeq(config.Pages, 1, n)
            paths == [k \in 1..n |-> PagePath(config, config.Pages[k])]
            d == WritePages(disk, config, written)
        IN  /\ io = "ok" <=> n = Len(config.Pages)
            /\ io # "ok" => ~faulted
            /\ faulted' = (faulted \/ io # "ok")
            /\ disk' = IF io = "execute"
                       THEN WriteFile(d, PagePath(config, config.Pages[n + 1]), Partial)
                       ELSE d
            /\ writes' = IF io = "execute"
                         THEN Created(CreatedAll(writes, paths),
                                      PagePath(config, config.Pages[n + 1]))
                         ELSE CreatedAll(writes, paths)
            /\ fatal' = IF io = "ok" THEN fatal
                        ELSE "Failed to " \o io \o " page "
                             \o config.Pages[n + 1].Title
            /\ pc' = IF io = "ok" THEN "sitemap" ELSE "fatal"
    /\ UNCHANGED <<config, files, posts, tagIndex, postIndex, idx, arg, ret>>

GenerateSitemap ==
    ReturningWriter("sitemap", IF config.Search.Enabled THEN "sluggo" ELSE "done",
                    JoinPath(<<config.OutputDir, "sitemap.xml">>),
                    [kind |-> "sitemap", URLs |-> SitemapURLs(config, posts)])

GenerateSluggoExport ==
    ReturningWriter("sluggo", "searchhtml", config.Search.Path,
                    [kind |-> "corpus", Name |-> config.BlogName, URL |-> config.URL,
                     Documents |-> SluggoDocuments(posts)])

GenerateSearchHTML ==
    FatalWriter("searchhtml", "done",
                JoinPath(<<config.OutputDir, config.Search.Dir, "index.html">>),
                [kind |-> "search"], "search.html")

Next ==
    \/ PreProcess
    \/ StartRender
    \/ RenderPost
    \/ GenerateIndexHTML
    \/ GenerateTagsHTML
    \/ GenerateRSSFeed
    \/ GenerateAtomFeed
    \/ GenerateCustomPages
    \/ GenerateSitemap
    \/ GenerateSluggoExport
    \/ GenerateSearchHTML

Spec == Init /\ [][Next]_vars

(***************************************************************************)
(* The pure functions, each applied to one argument drawn from a bounded   *)
(* set: the process calls the function and returns.                        *)
(***************************************************************************)
PureInit(inputs) ==
    /\ pc = "call"
    /\ arg \in inputs
    /\ ret = <<>>
    /\ config = ConfigZero
    /\ files = <<>>
    /\ posts = <<>>
    /\ tagIndex = <<>>
    /\ postIndex = <<>>
    /\ idx = 0
    /\ disk = <<>>
    /\ writes = <<>>
    /\ faulted = FALSE
    /\ fatal = ""

PureFrame ==
    UNCHANGED <<config, files, posts, tagIndex, postIndex, idx, disk, writes,
                faulted, fatal, arg>>

LinkAlphabet == {"a", "-", ".", " ", "\f"} \cup illegalChars

\* every short link over the alphabet, the links of TestValidateLinkName, and
\* links around the length limit
LinkInputs ==
    SeqsUpTo(LinkAlphabet, MaxLen)
    \cup { <<"a", "b", "o", "u", "t">>,
           <<"g", "o", "o", "d", "_", "n", "a", "m", "e", "_", "1", "2", "3">>,
           <<"v", "a", "l", "i", "d", "-", "l", "i", "n", "k">>,
           <<"a", "b", "c", "/", ".", ".", "/", "d", "e", "f">>,
           <<"i", "n", "v", "a", "l", "i", "d", "<", "l", "i", "n", "k", ">">>,
           <<" ", " ", "l", "e", "a", "d", "i", "n", "g">>,
           <<"t", "r", "a", "i", "l", "i", "n", "g", " ", " ">>,
           <<"n", "e", "w", "l", "i", "n", "e", "\n">> }
    \cup { Repeat("a", n) : n \in {MaxLinkLen - 1, MaxLinkLen, MaxLinkLen + 1, 301} }
    \cup { Repeat("a", MaxLinkLen - 1) \o <<c>> : c \in {"b", ".", " ", "?"} }

InitLink == PureInit(LinkInputs)

CallValidateLinkName ==
    /\ pc = "call"
    /\ ret' = validateLinkName(arg)
    /\ pc' = "return"
    /\ PureFrame

SpecLink == InitLink /\ [][CallValidateLinkName]_vars

\* every combination of present and empty required fields, with valid and
\* invalid status values
HeaderInputs ==
    { [FrontMatterZero EXCEPT !.Title = t, !.Link = l, !.Published = p,
                              !.Template = m, !.Description = d, !.Status = st]
      : t \in {"", "My Post"}, l \in {<<>>, <<"a">>}, p \in {"", "2024-12-17"},
        m \in {"", "default"}, d \in {"", "A post description"},
        st \in {"", Public, Private, "draft", "Public"} }

InitHeaders == PureInit(HeaderInputs)

CallValidateHeaders ==
    /\ pc = "call"
    /\ ret' = validateHeaders(arg, "post.yaml")
    /\ pc' = "return"
    /\ PureFrame

SpecHeaders == InitHeaders /\ [][CallValidateHeaders]_vars

(***************************************************************************)
(* Properties of validateLinkName.                                         *)
(***************************************************************************)
\* the rejection conditions, stated on the characters of the link
Rejected(link) ==
    \/ link = <<".">>
    \/ link = <<".", ".">>
    \/ \E k \in 1..(Len(link) - 1) : link[k] = "." /\ link[k + 1] = "."
    \/ \E k \in 1..Len(link) :
          link[k] \in {"<", ">", ":", "\"", "/", "\\", "|", "?", "*"}
          \/ link[k] \in {"\n", "\r", "\t"}
    \/ link # <<>> /\ (link[1] \in WhiteSpace \/ link[Len(link)] \in WhiteSpace)
    \/ link = <<>>
    \/ Len(link) > 255

Count(lines, x) == Cardinality({k \in DOMAIN lines : lines[k] = x})

RequiredFields == {"title", "link", "published", "template", "description"}

IsEmptyField(fm, field) ==
    CASE field = "title" -> fm.Title = ""
      [] field = "link" -> fm.Link = <<>>
      [] field = "published" -> fm.Published = ""
      [] field = "template" -> fm.Template = ""
      [] field = "description" -> fm.Description = ""

NumProblems(fm) ==
    Cardinality({f \in RequiredFields : IsEmptyField(fm, f)})
    + (IF fm.Status \in {"public", "private"} THEN 0 ELSE 1)

\* C9: validateHeaders reports every problem: the error holds exactly one
\* "missing a required header" line for each required field that is empty and
\* one "Invalid value for status" line when status is neither public nor
\* private, and nothing else after its first line; it succeeds only when no
\* line applies.
C9_AllProblemsReported ==
    pc = "return" =>
        /\ \A f \in RequiredFields :
              Count(ret, "missing a required header: " \o f)
                  = (IF IsEmptyField(arg, f) THEN 1 ELSE 0)
        /\ Count(ret, "Invalid value for status: " \o arg.Status)
              = (IF arg.Status \in {"public", "private"} THEN 0 ELSE 1)
        /\ Len(ret) = (IF NumProblems(arg) = 0 THEN 0 ELSE 1 + NumProblems(arg))
        /\ (ret = <<>>) <=> (NumProblems(arg) = 0)

\* every required field empty and an invalid status: six problems in one error
C9_Witness ==
    /\ pc = "return"
    /\ \A f \in RequiredFields : IsEmptyField(arg, f)
    /\ arg.Status = "draft"
    /\ Len(ret) = 7

\* position of a field name in ascending lexicographic order
FieldRank(field) ==
    CASE field = "description" -> 1
      [] field = "link" -> 2
      [] field = "published" -> 3
      [] field = "template" -> 4
      [] field = "title" -> 5

\* C10: in the report of validateHeaders the "missing a required header" lines
\* appear in ascending lexicographic order of field name (description, link,
\* published, template, title) and before any "Invalid value for status" line.
C10_MissingLinesSorted ==
    pc = "return" =>
        \A i, j \in DOMAIN ret :
            /\ \A f, g \in RequiredFields :
                  (i < j /\ ret[i] = MissingLine(f) /\ ret[j] = MissingLine(g))
                      => FieldRank(f) < FieldRank(g)
            /\ \A f \in RequiredFields :
                  (ret[i] = MissingLine(f) /\ ret[j] = StatusLine(arg.Status)) => i < j

(***************************************************************************)
(* Properties of processPosts.  The input of a run is the directory        *)
(* enumerated so far, files: the properties compare the program's state    *)
(* and output to it.                                                       *)
(***************************************************************************)
IsPublicDoc(f) == ~f.IsDir /\ f.fm.Status = "public"
IsPrivateDoc(f) == ~f.IsDir /\ f.fm.Status = "private"

\* the metadata of the public documents, in enumeration order
AcceptedFM ==
    LET sel == SelectSeq(files, IsPublicDoc)
    IN  [k \in 1..Len(sel) |-> sel[k].fm]

\* the same, newest file first
DisplayFM == [k \in 1..Len(AcceptedFM) |-> AcceptedFM[Len(AcceptedFM) + 1 - k]]

PrivateFM == {files[k].fm : k \in {n \in DOMAIN files : IsPrivateDoc(files[n])}}

\* the pre-processing loop and the page check have ended without a fatal error
PreProcessed == idx >= 1

HasFile(path, kind) == path \in DOMAIN disk /\ disk[path].kind = kind

FrontMatters(ps) == [k \in DOMAIN ps |-> ps[k].FrontMatter]
TitlesOf(xs) == [k \in DOMAIN xs |-> xs[k].Title]

\* C1: a private document is absent from every published view: it has no page
\* of its own and is in no index list, tag-index list, RSS item, Atom entry,
\* sitemap URL or search-export record.
C1_PrivateAbsent ==
    \A fm \in PrivateFM :
        /\ \A p \in DOMAIN disk :
              /\ disk[p].kind = "post" => disk[p].Post.FrontMatter # fm
              /\ disk[p].kind = "tag" =>
                    \A k \in DOMAIN disk[p].Value : disk[p].Value[k].FrontMatter # fm
              /\ disk[p].kind = "tags" =>
                    \A t \in DOMAIN disk[p].Tags :
                        \A k \in DOMAIN disk[p].Tags[t] :
                            disk[p].Tags[t][k].FrontMatter # fm
        /\ \A k \in DOMAIN posts : posts[k].FrontMatter # fm
        /\ \A t \in DOMAIN tagIndex :
              \A k \in DOMAIN tagIndex[t] : tagIndex[t][k].FrontMatter # fm
        /\ HasFile("output/index.html", "index") =>
              \A k \in DOMAIN disk["output/index.html"].Posts :
                  disk["output/index.html"].Posts[k].FrontMatter # fm
        /\ HasFile("output/rss.xml", "rss") =>
              \A k \in DOMAIN disk["output/rss.xml"].Items :
                  disk["output/rss.xml"].Items[k].Title # fm.Title
        /\ HasFile("output/atom.xml", "atom") =>
              \A k \in DOMAIN disk["output/atom.xml"].Entries :
                  disk["output/atom.xml"].Entries[k].Title # fm.Title
        /\ HasFile("output/sitemap.xml", "sitemap") =>
              \* after the three fixed URLs and the static pages, one URL for
              \* each public document and no other
              LET urls == disk["output/sitemap.xml"].URLs
                  base == 3 + Len(config.Pages)
              IN  /\ Len(urls) = base + Len(AcceptedFM)
                  /\ \A k \in 1..Len(AcceptedFM) :
                        \E n \in DOMAIN AcceptedFM :
                            /\ urls[base + k].Loc
                                  = buildPostLink(config, Str(AcceptedFM[n].Link))
                            /\ AcceptedFM[n].Title # fm.Title
        /\ HasFile("corpus.json", "corpus") =>
              \A k \in DOMAIN disk["corpus.json"].Documents :
                  /\ disk["corpus.json"].Documents[k].Title # fm.Title
                  /\ disk["corpus.json"].Documents[k].Description = fm.Description
                        => \E n \in DOMAIN AcceptedFM : AcceptedFM[n].Link = fm.Link

\* a complete run, every artifact written, over a directory with a tagged
\* private document and two public ones
C1_Witness ==
    /\ pc = "done"
    /\ ~faulted
    /\ config.Search.Enabled
    /\ Len(AcceptedFM) >= 2
    /\ \E fm \in PrivateFM : fm.Tags # <<>>

PublicLinks == {Str(AcceptedFM[k].Link) : k \in DOMAIN AcceptedFM}
PageLinks == {Str(config.Pages[k].Link) : k \in DOMAIN config.Pages}

\* a private document read so far shares its link with another document or
\* with a static page
PrivateCollision ==
    \E i \in DOMAIN files :
        /\ IsPrivateDoc(files[i])
        /\ \/ \E j \in DOMAIN files \ {i} :
                 ~files[j].IsDir /\ files[j].fm.Link = files[i].fm.Link
           \/ Str(files[i].fm.Link) \in PageLinks

\* C2 as stated: a private document's link is registered in the namespace,
\* so a run in which a private document shares its link with any other
\* document or static page never gets past the duplicate-link checks.
C2_PrivateCountsForUniqueness ==
    /\ PreProcessed =>
          \A fm \in PrivateFM : Str(fm.Link) \in DOMAIN postIndex
    /\ PrivateCollision => ~PreProcessed

\* C2 amended: a private document is validated but its link is never
\* registered: the namespace holds the links of the public documents only,
\* a duplicate-link abort names a link that two public documents, or a
\* public document and a static page, share, and no run with such a pair
\* gets past the checks.
C2_PrivateNotRegistered ==
    /\ (pc = "preprocess" \/ PreProcessed) =>
          /\ DOMAIN postIndex = PublicLinks
          /\ \A i, j \in DOMAIN AcceptedFM :
                AcceptedFM[i].Link = AcceptedFM[j].Link => i = j
    /\ PreProcessed => PublicLinks \cap PageLinks = {}
    /\ \A l \in ValidLinks \cup {<<"a", "b", "o", "u", "t">>} :
          /\ fatal = "Duplicate link in post " \o Str(l) =>
                \E i, j \in DOMAIN AcceptedFM :
                    i # j /\ AcceptedFM[i].Link = l /\ AcceptedFM[j].Link = l
          /\ fatal = "Duplicate link in page " \o Str(l) =>
                Str(l) \in PublicLinks \cap PageLinks

\* a complete run over a directory in which a private document shares its
\* link with a public one, and a private document with a static page
C2_Witness ==
    /\ pc = "done"
    /\ \E fm \in PrivateFM : Str(fm.Link) \in PublicLinks
    /\ \E fm \in PrivateFM : Str(fm.Link) \in PageLinks

\* C3 as stated: when the render loop starts, the links of the accepted
\* documents and of the static pages are pairwise distinct.
C3_LinksPairwiseDistinct ==
    PreProcessed =>
        LET links == [k \in DOMAIN posts |-> Str(posts[k].FrontMatter.Link)]
                     \o [k \in DOMAIN config.Pages |-> Str(config.Pages[k].Link)]
        IN  \A i, j \in DOMAIN links : links[i] = links[j] => i = j

\* where the page of a document is written
PagePathOf(fm) == "output/" \o Str(fm.Link) \o "/index.html"

\* C4: in the display order (the public documents, newest file first) the
\* page of the document at position i has the document at i-1 as Next and
\* the one at i+1 as Previous, each absent at the end of the list; hence a
\* document's Next is b exactly when b's Previous is that document.
C4_Neighbours ==
    PreProcessed =>
        /\ \A i \in DOMAIN DisplayFM :
              /\ (pc \in {"index", "tags"} \/ (pc = "render" /\ i < idx)) =>
                    HasFile(PagePathOf(DisplayFM[i]), "post")
              /\ HasFile(PagePathOf(DisplayFM[i]), "post") =>
                    LET page == disk[PagePathOf(DisplayFM[i])].Post
                    IN  /\ page.FrontMatter = DisplayFM[i]
                        /\ FrontMatters(page.Next) =
                              IF i > 1 THEN <<DisplayFM[i - 1]>> ELSE <<>>
                        /\ FrontMatters(page.Previous) =
                              IF i < Len(DisplayFM) THEN <<DisplayFM[i + 1]>>
                                                    ELSE <<>>
        /\ \A i, j \in DOMAIN DisplayFM :
              (/\ HasFile(PagePathOf(DisplayFM[i]), "post")
               /\ HasFile(PagePathOf(DisplayFM[j]), "post")) =>
                  (FrontMatters(disk[PagePathOf(DisplayFM[i])].Post.Next)
                        = <<DisplayFM[j]>>
                   <=> FrontMatters(disk[PagePathOf(DisplayFM[j])].Post.Previous)
                        = <<DisplayFM[i]>>)

\* a complete run over three public documents and a private one
C4_Witness ==
    /\ pc = "done"
    /\ Len(DisplayFM) = 3
    /\ PrivateFM # {}
    /\ \A i \in DOMAIN DisplayFM : HasFile(PagePathOf(DisplayFM[i]), "post")

\* C5: the index list, the RSS items, the Atom entries and the search-export
\* records each hold exactly the accepted documents, in the display order;
\* a run without an I/O error writes all of them.
C5_SameOrderEverywhere ==
    PreProcessed =>
        /\ FrontMatters(posts) = DisplayFM
        /\ HasFile("output/index.html", "index") =>
              FrontMatters(disk["output/index.html"].Posts) = DisplayFM
        /\ HasFile("output/rss.xml", "rss") =>
              TitlesOf(disk["output/rss.xml"].Items) = TitlesOf(DisplayFM)
        /\ HasFile("output/atom.xml", "atom") =>
              TitlesOf(disk["output/atom.xml"].Entries) = TitlesOf(DisplayFM)
        /\ HasFile("corpus.json", "corpus") =>
              TitlesOf(disk["corpus.json"].Documents) = TitlesOf(DisplayFM)
        /\ (pc = "done" /\ ~faulted) =>
              /\ HasFile("output/index.html", "index")
              /\ HasFile("output/rss.xml", "rss")
              /\ HasFile("output/atom.xml", "atom")
              /\ config.Search.Enabled => HasFile("corpus.json", "corpus")

\* a complete run with the search export, over two public documents or more
\* and a private one between them
C5_Witness ==
    /\ pc = "done"
    /\ ~faulted
    /\ config.Search.Enabled
    /\ Len(files) = 3
    /\ IsPublicDoc(files[1])
    /\ IsPrivateDoc(files[2])
    /\ IsPublicDoc(files[3])
    /\ Len(disk["corpus.json"].Documents) = 2

\* C6: every encoder names a document by the URL the link resolver gives
\* its link: the RSS link and guid, the Atom link and id, the sitemap loc,
\* the search-export id and the Canonical of the document's page.
C6_CanonicalURLAgreement ==
    PreProcessed =>
        \A k \in DOMAIN DisplayFM :
            LET url == buildPostLink(config, Str(DisplayFM[k].Link))
            IN  /\ posts[k].URL = url
                /\ HasFile(PagePathOf(DisplayFM[k]), "post") =>
                      disk[PagePathOf(DisplayFM[k])].Canonical = url
                /\ HasFile("output/rss.xml", "rss") =>
                      /\ disk["output/rss.xml"].Items[k].Link = url
                      /\ disk["output/rss.xml"].Items[k].Guid = url
                /\ HasFile("output/atom.xml", "atom") =>
                      /\ disk["output/atom.xml"].Entries[k].Link = <<[Href |-> url]>>
                      /\ disk["output/atom.xml"].Entries[k].Id = url
                /\ HasFile("output/sitemap.xml", "sitemap") =>
                      disk["output/sitemap.xml"].URLs[3 + Len(config.Pages) + k].Loc
                          = url
                /\ HasFile("corpus.json", "corpus") =>
                      disk["corpus.json"].Documents[k].ID = url

\* a complete run of a site served from the root, with static pages, every
\* artifact written
C6_Witness ==
    /\ pc = "done"
    /\ ~faulted
    /\ config.BasePath = ""
    /\ config.Pages # <<>>
    /\ Len(DisplayFM) >= 2
    /\ HasFile("output/sitemap.xml", "sitemap")
    /\ HasFile("corpus.json", "corpus")

ToLowerChar(c) ==
    CASE c = "C" -> "c"
      [] c = "M" -> "m"
      [] OTHER -> c

ToLower(s) == [k \in DOMAIN s |-> ToLowerChar(s[k])]

\* the names under which the tag index lists a document
KeysOf(fm) ==
    {t.TagName : t \in {x \in DOMAIN tagIndex :
        \E k \in DOMAIN tagIndex[x] : tagIndex[x][k].FrontMatter = fm}}

\* the root of the site: the site URL and the base path, if any
SiteRoot ==
    IF config.BasePath = "" THEN config.URL
    ELSE config.URL \o "/" \o config.BasePath

SortedHeaderNames ==
    <<"author", "description", "extra", "favicon", "image", "link", "published",
      "status", "tags", "template", "title", "unknown">>

\* the Headers table of the program, and the knownHeaders of TestValidateHeaders
Headers ==
    [h \in {"title", "link", "published", "template", "description", "tags",
            "favicon", "author", "image", "status"} |->
        h \in {"title", "link", "published", "template", "description"}]

TestKnownHeaders ==
    [h \in {"title", "link", "published", "template", "description", "tags",
            "favicon", "author"} |->
        h \in {"title", "link", "published", "template", "description"}]

\* headers["status"]: the zero value of a missing key
HeaderValue(headers, key) == IF key \in DOMAIN headers THEN headers[key] ELSE ""

RECURSIVE Cat(_)
Cat(seqs) == IF seqs = <<>> THEN <<>> ELSE Head(seqs) \o Cat(Tail(seqs))

\* the orders in which a range over a map may visit the keys in S
Orders(S) ==
    {o \in [1..Cardinality(S) -> S] : \A i, j \in DOMAIN o : o[i] = o[j] => i = j}

\* the report, with the unknown headers visited in the given order
validateHeadersMap(headers, knownHeaders, filePath, order) ==
    LET missing ==
            Cat([k \in DOMAIN SortedHeaderNames |->
                  LET h == SortedHeaderNames[k]
                  IN  IF h \in DOMAIN knownHeaders /\ knownHeaders[h]
                         /\ h \notin DOMAIN headers
                      THEN <<"missing a required header: " \o h>> ELSE <<>>])
        unknown == [k \in DOMAIN order |-> "contains unknown header: " \o order[k]]
        status == IF HeaderValue(headers, "status") \in ValidPostStatuses THEN <<>>
                  ELSE <<StatusLine(HeaderValue(headers, "status"))>>
        errorMessages == missing \o unknown \o status
    IN  IF errorMessages # <<>> THEN <<IssuesLine(filePath)>> \o errorMessages
        ELSE <<>>

HeaderMaps ==
    LET values == [h \in {"title", "link", "published", "template", "description",
                          "tags", "unknown", "extra"} |-> "value of " \o h]
    IN  UNION { { [h \in K |-> values[h]] }
                \cup { [h \in K \cup {"status"} |->
                          IF h = "status" THEN st ELSE values[h]]
                       : st \in {Public, "draft"} }
              : K \in SUBSET DOMAIN values }

\* at most two unknown headers in a post
HeaderMapInputs ==
    { in \in { [headers |-> h, knownHeaders |-> k]
               : h \in HeaderMaps, k \in {Headers, TestKnownHeaders, <<>>} } :
        Cardinality(DOMAIN in.headers \ DOMAIN in.knownHeaders) <= 2 }

InitHeaderMap == PureInit(HeaderMapInputs)

CallValidateHeadersMap ==
    /\ pc = "call"
    /\ \E order \in Orders(DOMAIN arg.headers \ DOMAIN arg.knownHeaders) :
          ret' = validateHeadersMap(arg.headers, arg.knownHeaders, "post.yaml", order)
    /\ pc' = "return"
    /\ PureFrame

SpecHeaderMap == InitHeaderMap /\ [][CallValidateHeadersMap]_vars

\* C11: with every required header of knownHeaders present and every header
\* known, validateHeaders returns no error.
C11_KnownAndRequiredAccepted ==
    (/\ pc = "return"
     /\ \A h \in DOMAIN arg.knownHeaders :
           arg.knownHeaders[h] => h \in DOMAIN arg.headers
     /\ DOMAIN arg.headers \subseteq DOMAIN arg.knownHeaders)
    => ret = <<>>

(***************************************************************************)
(* Properties of the link resolver.                                        *)
(***************************************************************************)
\* the URL of a directory-like segment under the site root
SegmentURL(segment) == SiteRoot \o "/" \o segment \o "/"

\* C12: the resolver gives every document link, tag name and static-page
\* link the URL <root>[/<base-path>]/<segment>/ with a trailing slash, as it
\* does the home and the tags index; the RSS, Atom and sitemap URLs name
\* files and have none.
C12_ResolverShape ==
    PreProcessed =>
        /\ \A l \in ValidLinks :
              buildPostLink(config, Str(l)) = SegmentURL(Str(l))
        /\ \A t \in {"meta", "Code", "code"} :
              buildTagLink(config, t) = SegmentURL("tags/" \o t)
        /\ \A k \in DOMAIN config.Pages :
              buildCustomPageLink(config, config.Pages[k])
                  = SegmentURL(Str(config.Pages[k].Link))
        /\ buildRootLink(config) = SiteRoot \o "/"
        /\ buildTagsLink(config) = SegmentURL("tags")
        /\ buildRSSLink(config) = SiteRoot \o "/rss.xml"
        /\ buildAtomLink(config) = SiteRoot \o "/atom.xml"
        /\ buildSitemapLink(config) = SiteRoot \o "/sitemap.xml"
        /\ HasFile("output/sitemap.xml", "sitemap") =>
              \A k \in DOMAIN config.Pages :
                  disk["output/sitemap.xml"].URLs[3 + k].Loc
                      = SegmentURL(Str(config.Pages[k].Link))

(***************************************************************************)
(* Properties of the failure policy of processPosts.                       *)
(***************************************************************************)
\* the timestamps of the model that are RFC 3339
ParsableDates ==
    {"2024-01-01T09:00:00-08:00", "2024-01-02T09:00:00+01:00",
     "2024-11-29T18:29:00-08:00"}

\* a file whose metadata does not parse, lacks a required field, has an
\* invalid status, an unsafe link or an unparsable date
IsRefused(f) ==
    /\ ~f.IsDir
    /\ \/ f.yamlErr
       \/ \E field \in RequiredFields : IsEmptyField(f.fm, field)
       \/ f.fm.Status \notin {"public", "private"}
       \/ Rejected(f.fm.Link)
       \/ f.fm.Published \notin ParsableDates

\* the files read so far hold a refused document, two public documents with
\* one link, or a public document with the link of a static page
InvalidInput ==
    \/ \E k \in DOMAIN files : IsRefused(files[k])
    \/ \E i, j \in DOMAIN AcceptedFM :
          i # j /\ AcceptedFM[i].Link = AcceptedFM[j].Link
    \/ PublicLinks \cap PageLinks # {}

\* C13: when a document, public or private, fails metadata parsing, header
\* validation, link-safety validation or timestamp parsing, or a duplicate
\* link is detected, the run aborts before anything is written: it never
\* enters the render loop and no file exists.
C13_AbortBeforeOutput ==
    /\ InvalidInput =>
          /\ pc \in {"preprocess", "fatal"}
          /\ ~PreProcessed
          /\ disk = <<>>
          /\ writes = <<>>
    /\ (\E k \in DOMAIN files : IsRefused(files[k])) =>
          (pc = "fatal" /\ fatal # "" /\ IsRefused(files[Len(files)]))

\* a run aborted on a private document with an unsafe link, read after a
\* public document was accepted
C13_Witness ==
    /\ pc = "fatal"
    /\ posts # <<>>
    /\ IsPrivateDoc(files[Len(files)])
    /\ Rejected(files[Len(files)].fm.Link)
    /\ disk = <<>>

\* C14: every writer is fatal on an I/O error: once the creation or the
\* encoding of an artifact has failed the run is in its failed state, and a
\* run that completes has written every artifact.
C14_WritersFatal ==
    /\ faulted => pc = "fatal"
    /\ pc = "done" =>
          /\ HasFile("output/index.html", "index")
          /\ HasFile("output/rss.xml", "rss")
          /\ HasFile("output/atom.xml", "atom")
          /\ HasFile("output/sitemap.xml", "sitemap")
          /\ config.Search.Enabled => HasFile("corpus.json", "corpus")
          /\ \A i \in DOMAIN DisplayFM : HasFile(PagePathOf(DisplayFM[i]), "post")

(***************************************************************************)
(* parseFileWithHeaders: the split of a file, a sequence of lines, into    *)
(* the front matter handed to the YAML decoder and the content.            *)
(***************************************************************************)
Delimiter == "---"

\* the scanner loop: the two builders after the lines have been read
RECURSIVE ScanLines(_, _, _, _)
ScanLines(lines, inFrontMatter, frontMatterBuilder, contentBuilder) ==
    IF lines = <<>>
    THEN [yamlContent |-> frontMatterBuilder, content |-> contentBuilder]
    ELSE IF Head(lines) = Delimiter
    THEN ScanLines(Tail(lines), ~inFrontMatter, frontMatterBuilder, contentBuilder)
    ELSE IF inFrontMatter
    THEN ScanLines(Tail(lines), inFrontMatter,
                   Append(frontMatterBuilder, Head(lines)), contentBuilder)
    ELSE ScanLines(Tail(lines), inFrontMatter,
                   frontMatterBuilder, Append(contentBuilder, Head(lines)))

\* strings.TrimPrefix(content, "\n"), on the lines of the content: each line
\* was written with its newline, so one leading empty line is removed
TrimPrefixNewline(lines) ==
    IF lines # <<>> /\ Head(lines) = "" THEN Tail(lines) ELSE lines

parseFileWithHeaders(lines) ==
    LET r == ScanLines(lines, FALSE, <<>>, <<>>)
    IN  [yamlContent |-> r.yamlContent, content |-> TrimPrefixNewline(r.content)]

FileLines == {Delimiter, "", "title: T", "text", "--- "}

FileInputs == SeqsUpTo(FileLines, MaxLines)

InitParse == PureInit(FileInputs)

CallParseFileWithHeaders ==
    /\ pc = "call"
    /\ ret' = parseFileWithHeaders(arg)
    /\ pc' = "return"
    /\ PureFrame

SpecParse == InitParse /\ [][CallParseFileWithHeaders]_vars

\* the position of the n-th delimiter line of a file (0 when there is none)
RECURSIVE DelimiterAt(_, _, _)
DelimiterAt(lines, n, from) ==
    IF from > Len(lines) THEN 0
    ELSE IF lines[from] = Delimiter
    THEN IF n = 1 THEN from ELSE DelimiterAt(lines, n - 1, from + 1)
    ELSE DelimiterAt(lines, n, from + 1)

\* C15: the metadata block is the lines strictly between the first and the
\* second --- line; the body is every line after the second --- line, later
\* --- lines included, without one leading blank line.
C15_SplitAtFirstTwoDelimiters ==
    (pc = "return" /\ DelimiterAt(arg, 2, 1) > 0) =>
        LET open == DelimiterAt(arg, 1, 1)
            close == DelimiterAt(arg, 2, 1)
            rest == SubSeq(arg, close + 1, Len(arg))
        IN  /\ ret.yamlContent = SubSeq(arg, open + 1, close - 1)
            /\ ret.content = IF rest # <<>> /\ rest[1] = "" THEN Tail(rest) ELSE rest

(***************************************************************************)
(* Properties of the sitemap and of the dates in the feeds.                *)
(***************************************************************************)
\* C16: the sitemap holds 3 + pages + documents entries: home (daily, 1.0),
\* tags index (weekly, 0.8), RSS (no change frequency, 0.7), the static pages
\* in declared order (monthly, 0.5), the documents in display order (weekly,
\* 0.9), each document with its own publish timestamp as last-modified.
C16_SitemapEntries ==
    HasFile("output/sitemap.xml", "sitemap") =>
        LET urls == disk["output/sitemap.xml"].URLs
            np == Len(config.Pages)
            Entry(k, loc, freq, prio) ==
                /\ urls[k].Loc = loc
                /\ urls[k].ChangeFreq = freq
                /\ urls[k].Priority = prio
        IN  /\ Len(urls) = 3 + np + Len(DisplayFM)
            /\ Entry(1, buildRootLink(config), "daily", "1.0")
            /\ Entry(2, buildTagsLink(config), "weekly", "0.8")
            /\ Entry(3, buildRSSLink(config), "", "0.7")
            /\ \A k \in 1..np :
                  Entry(3 + k, buildCustomPageLink(config, config.Pages[k]),
                        "monthly", "0.5")
            /\ \A k \in 1..Len(DisplayFM) :
                  /\ Entry(3 + np + k, buildPostLink(config, Str(DisplayFM[k].Link)),
                           "weekly", "0.9")
                  \* a timestamp with whole seconds and a numeric offset is
                  \* rendered as it was written
                  /\ urls[3 + np + k].LastMod = DisplayFM[k].Published

\* a sitemap with two static pages and three documents of different dates
C16_Witness ==
    /\ HasFile("output/sitemap.xml", "sitemap")
    /\ Len(config.Pages) = 2
    /\ Len(DisplayFM) = 3
    /\ Len(disk["output/sitemap.xml"].URLs) = 8

\* the fields of a date-time written in RFC 3339 or RFC 1123 with a numeric
\* offset: year, month, day, hour, minute, second, offset in seconds
DateFields(s) ==
    CASE s \in {"2024-01-01T09:00:00-08:00", "Mon, 01 Jan 2024 09:00:00 -0800"} ->
            <<2024, 1, 1, 9, 0, 0, -(8 * 3600)>>
      [] s \in {"2024-01-02T09:00:00+01:00", "Tue, 02 Jan 2024 09:00:00 +0100"} ->
            <<2024, 1, 2, 9, 0, 0, 3600>>
      [] s \in {"2024-11-29T18:29:00-08:00", "Fri, 29 Nov 2024 18:29:00 -0800"} ->
            <<2024, 11, 29, 18, 29, 0, -(8 * 3600)>>
      [] OTHER -> <<1, 1, 1, 0, 0, 0, 0>>

\* days from 1970-01-01 to a date of the Gregorian calendar
DaysFromCivil(y, m, d) ==
    LET yy == IF m <= 2 THEN y - 1 ELSE y
        era == yy \div 400
        yoe == yy - era * 400
        mp == IF m > 2 THEN m - 3 ELSE m + 9
        doy == (153 * mp + 2) \div 5 + d - 1
        doe == yoe * 365 + yoe \div 4 - yoe \div 100 + doy
    IN  era * 146097 + doe - 719468

\* the instant (seconds since the epoch) and the offset a written date-time denotes
InstantOf(s) ==
    LET f == DateFields(s)
    IN  [unix |-> DaysFromCivil(f[1], f[2], f[3]) * 86400
                  + f[4] * 3600 + f[5] * 60 + f[6] - f[7],
         offset |-> f[7]]

\* C17: the pubDate of a document's RSS item and the published and updated
\* fields of its Atom entry denote the instant and the offset of the
\* document's published value; 2024-11-29T18:29:00-08:00 is rendered as
\* Fri, 29 Nov 2024 18:29:00 -0800 in RSS and as written in Atom.
C17_SameInstantInFeeds ==
    PreProcessed =>
        \A k \in DOMAIN DisplayFM :
            LET published == DisplayFM[k].Published
            IN  /\ posts[k].PubTime = InstantOf(published)
                /\ HasFile("output/rss.xml", "rss") =>
                      LET item == disk["output/rss.xml"].Items[k]
                      IN  /\ InstantOf(item.PubDate) = InstantOf(published)
                          /\ published = "2024-11-29T18:29:00-08:00" =>
                                item.PubDate = "Fri, 29 Nov 2024 18:29:00 -0800"
                /\ HasFile("output/atom.xml", "atom") =>
                      LET entry == disk["output/atom.xml"].Entries[k]
                      IN  /\ InstantOf(entry.Published) = InstantOf(published)
                          /\ InstantOf(entry.Updated) = InstantOf(published)
                          /\ published = "2024-11-29T18:29:00-08:00" =>
                                entry.Published = "2024-11-29T18:29:00-08:00"

\* both feeds written, for documents of three dates and two offsets
C17_Witness ==
    /\ HasFile("output/rss.xml", "rss")
    /\ HasFile("output/atom.xml", "atom")
    /\ Len(DisplayFM) = 3
    /\ \E k \in DOMAIN DisplayFM : DisplayFM[k].Published = "2024-11-29T18:29:00-08:00"
    /\ \E k \in DOMAIN DisplayFM : DisplayFM[k].Published = "2024-01-02T09:00:00+01:00"

(***************************************************************************)
(* main: the command line, loadConfig, then processPosts.  The input of a  *)
(* start is os.Args[1:] and what os.Open and the YAML decoder make of the  *)
(* file that the first argument names.                                     *)
(***************************************************************************)
HelpFlags == {"--help", "-h", "help"}

\* the outcomes of loadConfig: the file cannot be opened, cannot be decoded,
\* or holds a configuration
LoadOutcomes == {"open", "decode", "ok"}

StartInputs ==
    { [args |-> a, load |-> l]
      : a \in {<<>>, <<"--help">>, <<"-h">>, <<"help">>, <<"config.yaml">>,
               <<"config.yaml", "extra">>},
        l \in LoadOutcomes }

\* the configuration that a decodable file holds
LoadedConfig ==
    CHOOSE c \in Configs :
        c.BasePath = "blog" /\ c.Search.Enabled /\ c.Pages = <<Page(<<"a">>)>>

loadConfig(in) ==
    CASE in.load = "open" -> [err |-> "failed to open config file", config |-> ConfigZero]
      [] in.load = "decode" -> [err |-> "failed to decode config file", config |-> ConfigZero]
      [] OTHER -> [err |-> NoError, config |-> LoadedConfig]

InitMain ==
    /\ pc = "main"
    /\ arg \in StartInputs
    /\ ret = 0
    /\ config = ConfigZero
    /\ files = <<>>
    /\ posts = <<>>
    /\ tagIndex = <<>>
    /\ postIndex = <<>>
    /\ idx = 0
    /\ disk = <<>>
    /\ writes = <<>>
    /\ faulted = FALSE
    /\ fatal = ""

\* main up to the call of processPosts; ret is the status of os.Exit and
\* fatal the message printed before it
Main ==
    /\ pc = "main"
    /\ IF Len(arg.args) < 1
       THEN /\ fatal' = "Usage: draft [config.yaml]"
            /\ ret' = 1
            /\ pc' = "exit"
            /\ UNCHANGED config
       ELSE LET configPath == arg.args[1]
                loaded == loadConfig(arg)
            IN  IF loaded.err # NoError
                THEN /\ fatal' = IF configPath \in HelpFlags
                                 THEN "See also: https://harrison.blog/announcing-draft/"
                                 ELSE "Error loading configuration: " \o loaded.err
                     /\ ret' = 1
                     /\ pc' = "exit"
                     /\ UNCHANGED config
                ELSE /\ config' = loaded.config
                     /\ pc' = "preprocess"
                     /\ UNCHANGED <<fatal, ret>>
    /\ UNCHANGED <<files, posts, tagIndex, postIndex, idx, disk, writes, faulted, arg>>

SpecMain == InitMain /\ [][Main \/ Next]_vars

\* C18: started with no argument, with a help flag, or with a configuration
\* that cannot be opened or decoded, the program prints a message and exits
\* with a non-zero status, having read no document and written no output.
C18_NoRunWithoutConfig ==
    (\/ arg.args = <<>>
     \/ arg.args # <<>> /\ arg.args[1] \in HelpFlags
     \/ arg.load # "ok")
    => /\ pc \in {"main", "exit"}
       /\ pc = "exit" => (ret # 0 /\ fatal # "")
       /\ files = <<>>
       /\ disk = <<>>

(***************************************************************************)
(* Properties of the pages written by the render loop.                     *)
(***************************************************************************)
\* C19: the Related list on a document's page has the length and the order
\* of its declared related links: entry k is the accepted document with the
\* k-th declared link, or a zero-valued Post when no accepted document has it.
C19_RelatedPlaceholders ==
    \A i \in DOMAIN DisplayFM :
        HasFile(PagePathOf(DisplayFM[i]), "post") =>
            LET related == disk[PagePathOf(DisplayFM[i])].Post.Related
                declared == DisplayFM[i].Related
            IN  /\ Len(related) = Len(declared)
                /\ \A k \in DOMAIN declared :
                      IF declared[k] \in PublicLinks
                      THEN /\ Str(related[k].FrontMatter.Link) = declared[k]
                           /\ \E n \in DOMAIN AcceptedFM :
                                 related[k].FrontMatter = AcceptedFM[n]
                           /\ related[k].URL = buildPostLink(config, declared[k])
                      ELSE /\ related[k].FrontMatter = FrontMatterZero
                           /\ related[k].URL = ""
                           /\ related[k].Tags = <<>>

\* a page written with a resolved related document followed by a placeholder
C19_Witness ==
    /\ pc = "done"
    /\ \E i \in DOMAIN DisplayFM :
          /\ HasFile(PagePathOf(DisplayFM[i]), "post")
          /\ DisplayFM[i].Related = <<"b", "nowhere">>
          /\ "b" \in PublicLinks
          /\ LET related == disk[PagePathOf(DisplayFM[i])].Post.Related
             IN  /\ Len(related) = 2
                 /\ related[1].FrontMatter.Title = "Title of b.public"
                 /\ related[2] = PostZero

\* C20: no output path is created twice in a run: the pages of the
\* documents, the static pages, the index, the tags index, the tag pages,
\* the feeds and the sitemap land on pairwise distinct paths.
C20_NoPathWrittenTwice ==
    \A p \in DOMAIN writes : writes[p] <= 1

(***************************************************************************)
(* Properties of the tag index.                                            *)
(***************************************************************************)
\* the trimmed tag names that a document declares
DeclaredTags(fm) == {Str(TrimSpace(fm.Tags[n])) : n \in DOMAIN fm.Tags}

\* the position of a document in the enumeration of the public documents
PositionOf(fm) == CHOOSE n \in DOMAIN AcceptedFM : AcceptedFM[n] = fm

\* C21: after pre-processing a document is in the tag-index list of a tag if
\* and only if it is public and declares the tag (trimmed); every declared
\* tag of a public document is a key; within a list the documents are in
\* enumeration order, oldest file first.
C21_TagIndexMembership ==
    (pc = "preprocess" \/ PreProcessed) =>
        /\ \A t \in DOMAIN tagIndex :
              LET list == FrontMatters(tagIndex[t])
              IN  /\ \A k \in DOMAIN list :
                        /\ \E n \in DOMAIN AcceptedFM : AcceptedFM[n] = list[k]
                        /\ t.TagName \in DeclaredTags(list[k])
                  /\ \A n \in DOMAIN AcceptedFM :
                        t.TagName \in DeclaredTags(AcceptedFM[n]) =>
                            \E k \in DOMAIN list : list[k] = AcceptedFM[n]
                  /\ \A i, j \in DOMAIN list :
                        i < j => PositionOf(list[i]) <= PositionOf(list[j])
        /\ \A n \in DOMAIN AcceptedFM :
              DeclaredTags(AcceptedFM[n]) \subseteq {t.TagName : t \in DOMAIN tagIndex}

\* two public documents under the tag meta, a tagged private document read
\* between them
C21_Witness ==
    /\ PreProcessed
    /\ \E fm \in PrivateFM : fm.Tags # <<>>
    /\ \E t \in DOMAIN tagIndex :
          /\ t.TagName = "meta"
          /\ \E i, j \in DOMAIN tagIndex[t] :
                tagIndex[t][i].FrontMatter.Link # tagIndex[t][j].FrontMatter.Link


\* C22: the document list handed to the page of a tag is the tag's index
\* list reversed, the newest-first order of the index and the feeds.
C22_TagPagesNewestFirst ==
    \A t \in DOMAIN tagIndex :
        HasFile(TagPath(config, t), "tag") =>
            disk[TagPath(config, t)].Value = reverse(tagIndex[t])


\* the configuration with no base path whose root is the root followed by
\* the base path
Rebased(cfg) ==
    [cfg EXCEPT !.URL = cfg.URL \o "/" \o cfg.BasePath, !.BasePath = ""]

\* C23: every URL builder (post, root, tag, tags index, RSS, Atom, sitemap,
\* static page, rights) treats the base path alike: the URL built with base
\* path B is the URL built with no base path and the root R/B.
C23_BasePathUniform ==
    (PreProcessed /\ config.BasePath # "") =>
        LET flat == Rebased(config)
        IN  /\ \A l \in ValidLinks :
                  buildPostLink(config, Str(l)) = buildPostLink(flat, Str(l))
            /\ \A t \in {"meta", "Code", "code"} :
                  buildTagLink(config, t) = buildTagLink(flat, t)
            /\ buildRootLink(config) = buildRootLink(flat)
            /\ buildTagsLink(config) = buildTagsLink(flat)
            /\ buildRSSLink(config) = buildRSSLink(flat)
            /\ buildAtomLink(config) = buildAtomLink(flat)
            /\ buildSitemapLink(config) = buildSitemapLink(flat)
            /\ \A k \in DOMAIN config.Pages :
                  buildCustomPageLink(config, config.Pages[k])
                      = buildCustomPageLink(flat, config.Pages[k])
            /\ buildRightsLink(config) = buildRightsLink(flat)


(***************************************************************************)
(* Properties of the order of the stages.                                  *)
(***************************************************************************)
\* the paths of the pages of the first n documents of the display order
PostPaths(n) == {PostPath(config, posts[k]) : k \in 1..n}

\* a file of a publisher: any file that is not the page, finished or not, of
\* a document
AggregateExists ==
    \E p \in DOMAIN disk :
        \/ disk[p].kind \notin {"post", "partial"}
        \/ p \notin PostPaths(Len(posts))

\* the render loop has stopped at the document of position idx
RenderFailed == pc = "fatal" /\ idx >= 1 /\ idx <= Len(posts)

NoBackFill(post) == post.Previous = <<>> /\ post.Next = <<>> /\ post.Related = <<>>

\* the record without what the render loop adds to it
Bare(post) == [post EXCEPT !.Previous = <<>>, !.Next = <<>>, !.Related = <<>>]

\* C25: the back-fill does not alter the shared content graph. In and after
\* the render loop every entry of posts, of every tag-index list and of the
\* link lookup has empty Previous, Next and Related; posts keeps its length
\* and order and its entries are the records of the link lookup; only the
\* record handed to a document's own page carries neighbours and related
\* documents, and it is otherwise the entry of posts.
C25_GraphUnaltered ==
    PreProcessed =>
        /\ \A k \in DOMAIN posts : NoBackFill(posts[k])
        /\ \A l \in DOMAIN postIndex : NoBackFill(postIndex[l])
        /\ \A t \in DOMAIN tagIndex :
              \A k \in DOMAIN tagIndex[t] :
                  tagIndex[t][k] = postIndex[Str(tagIndex[t][k].FrontMatter.Link)]
        /\ FrontMatters(posts) = DisplayFM
        /\ \A k \in DOMAIN posts :
              /\ posts[k] = postIndex[Str(posts[k].FrontMatter.Link)]
              /\ HasFile(PostPath(config, posts[k]), "post") =>
                    LET page == disk[PostPath(config, posts[k])].Post
                    IN  /\ Bare(page) = posts[k]
                        /\ Len(posts) > 1 => ~NoBackFill(page)

\* a page with a neighbour and a related document has been written and the
\* render loop has gone on
C25_Witness ==
    /\ idx >= 2
    /\ Len(posts) >= 2
    /\ HasFile(PostPath(config, posts[1]), "post")
    /\ disk[PostPath(config, posts[1])].Post.Previous # <<>>
    /\ disk[PostPath(config, posts[1])].Post.Related # <<>>


(***************************************************************************)
(* Properties of the names of the output directories.                      *)
(***************************************************************************)
\* C26: every user-supplied name that becomes an output directory (the link
\* of a document, the link of a static page, the name of a tag) has passed
\* the link-safety policy before a file is written under it.
C26_DirectoryNamesValidated ==
    /\ \A k \in DOMAIN posts :
          HasFile(PostPath(config, posts[k]), "post") =>
              validateLinkName(posts[k].FrontMatter.Link) = NoError
    /\ \A k \in DOMAIN config.Pages :
          HasFile(PagePath(config, config.Pages[k]), "page") =>
              validateLinkName(config.Pages[k].Link) = NoError
    /\ \A n \in DOMAIN AcceptedFM :
          \A m \in DOMAIN AcceptedFM[n].Tags :
              LET name == TrimSpace(AcceptedFM[n].Tags[m])
              IN  HasFile(TagPath(config, [TagName |-> Str(name)]), "tag") =>
                      validateLinkName(name) = NoError


(***************************************************************************)
(* Properties of the links between documents.                              *)
(***************************************************************************)
\* the links of the private documents read
PrivateLinks == {Str(fm.Link) : fm \in PrivateFM}

\* the records a written page of a document holds
PagesWritten == {disk[p].Post : p \in {q \in DOMAIN disk : disk[q].kind = "post"}}

\* C27 as stated: no private document is the Previous or Next of a document,
\* and a related link that names a private document resolves to the
\* zero-valued placeholder.
C27_PrivateRelatedIsZero ==
    \A page \in PagesWritten :
        /\ \A k \in DOMAIN page.Previous : page.Previous[k].FrontMatter.Status # Private
        /\ \A k \in DOMAIN page.Next : page.Next[k].FrontMatter.Status # Private
        /\ \A k \in DOMAIN page.FrontMatter.Related :
              page.FrontMatter.Related[k] \in PrivateLinks =>
                  page.Related[k] = PostZero

\* C27: no private document is the Previous, the Next or a Related entry of a
\* page, and every page is a public document's; a related link that no public
\* document has, the link of a private document included, resolves to the
\* zero-valued placeholder, and a link that a public and a private document
\* share resolves to the public one.
C27_PrivateNeverLinked ==
    \A page \in PagesWritten :
        /\ page.FrontMatter.Status = Public
        /\ \A k \in DOMAIN page.Previous : page.Previous[k].FrontMatter.Status = Public
        /\ \A k \in DOMAIN page.Next : page.Next[k].FrontMatter.Status = Public
        /\ \A k \in DOMAIN page.FrontMatter.Related :
              IF page.FrontMatter.Related[k] \in PublicLinks
              THEN page.Related[k].FrontMatter.Status = Public
              ELSE page.Related[k] = PostZero

\* a page with a neighbour whose related link is the link of a private
\* document and of no public one
C27_Witness ==
    \E page \in PagesWritten :
        /\ page.Previous # <<>>
        /\ page.FrontMatter.Related = <<"a">>
        /\ "a" \in PrivateLinks \ PublicLinks
        /\ page.Related = <<PostZero>>


\* C28: an accepted document appears at most once in the tag-index list of a
\* tag, also when it declares the tag more than once.
C28_OncePerTagList ==
    \A t \in DOMAIN tagIndex :
        \A i, j \in DOMAIN tagIndex[t] :
            tagIndex[t][i].FrontMatter = tagIndex[t][j].FrontMatter => i = j


(***************************************************************************)
(* Determinism of validateHeaders on a map of headers.                     *)
(***************************************************************************)
\* the report of one fixed visiting order of the unknown headers
ReportOf(in) ==
    validateHeadersMap(in.headers, in.knownHeaders, "post.yaml",
                       CHOOSE o \in Orders(DOMAIN in.headers \ DOMAIN in.knownHeaders) : TRUE)

\* C29: validateHeaders on a map of headers is deterministic: the error text
\* is a function of the inputs, also when the map holds two or more unknown
\* headers, so every call returns the report of one and the same order.
C29_SameTextOnSameInput ==
    pc = "return" => ret = ReportOf(arg)


(***************************************************************************)
(* Termination.                                                            *)
(***************************************************************************)
\* processPosts is one sequential procedure: while a step is possible the
\* process takes it
SpecLive == Spec /\ WF_vars(Next)

Halted == pc \in {"done", "fatal"}

\* no directory entry has been handed to the pre-processing loop twice
EachFileOnce == \A i, j \in DOMAIN files : files[i] = files[j] => i = j

\* while the render loop runs and when it has ended, the page of every
\* document it has passed has been created once, and no other file
EachPostOnce ==
    pc \in {"render", "index"} =>
        /\ DOMAIN writes = PostPaths(idx - 1)
        /\ \A p \in DOMAIN writes : writes[p] = 1
        /\ Cardinality(DOMAIN writes) = idx - 1
        /\ pc = "index" => idx - 1 = Len(AcceptedFM)

====
